---- MODULE Spec2Model ----
(***************************************************************************)
(* Model of client/rpc/src/lib.rs of Frontier: the binary-search gas      *)
(* estimator (estimate_gas_binary::execute), the outcome classifier        *)
(* (error_on_execution_failure) and the development signer                 *)
(* (EthDevSigner::sign).                                                   *)
(*                                                                         *)
(* Machine integers (u8, u32, u64) are modelled with their width.  A u32   *)
(* or u64 is a little-endian sequence of 16-bit limbs (2 resp. 4 limbs):   *)
(* <<21000, 0>> is 21000, <<65535, 65535>> is u32::MAX.  Arithmetic on     *)
(* limbs is exact, so saturation and wrap-around happen where they happen  *)
(* in the program.                                                         *)
(***************************************************************************)
EXTENDS Integers, Sequences, FiniteSets, TLC

VARIABLES
    call,        \* entry point invoked: "execute", "classify" or "sign"
    build,       \* "debug" (overflow checks on) or "release" (wrapping)
    pc,          \* position inside the invoked function
    ret,         \* what the function returned (or Pending / Panic)
    \* ---- estimate_gas_binary::execute
    gas,         \* request.gas : Option<U256>
    probe,       \* behaviour of the execution engine for this request
    high, low, current, exit_reason,
    probes,      \* number of executor runs so far
    last_probe,  \* history: budget and outcome of the most recent run
    \* ---- error_on_execution_failure
    reason, data,
    \* ---- EthDevSigner::sign
    keys, message, address, idx, recid, parse_ok, sig_ok, transaction

vars == <<call, build, pc, ret, gas, probe, high, low, current, exit_reason,
          probes, last_probe, reason, data, keys, message, address, idx, recid, parse_ok,
          sig_ok, transaction>>

estVars == <<gas, probe, high, low, current, exit_reason, probes, last_probe>>
clsVars == <<reason, data>>
sgnVars == <<keys, message, address, idx, recid, parse_ok, sig_ok, transaction>>

(***************************************************************************)
(* Bounds of the model.                                                    *)
(***************************************************************************)
MaxWidth == 6      \* ceilings 21000 .. 21000 + MaxWidth are explored freely
MaxProbes == 34    \* the probe counter stops the model after this many runs
MaxBody == 3       \* revert reason bodies of up to this many bytes

(***************************************************************************)
(* Option<T>: None is the empty sequence, Some(x) a one-element sequence.  *)
(***************************************************************************)
None == <<>>
Some(x) == <<x>>
IsNone(o) == o = <<>>
Unwrap(o) == o[1]

(***************************************************************************)
(* Fixed-width unsigned integers as little-endian 16-bit limbs.            *)
(***************************************************************************)
LimbBase == 2^16

\* the n-limb integer of a small natural x (x < 2^31)
Limbs(n, x) ==
    [i \in 1..n |-> IF i = 1 THEN x % LimbBase
                    ELSE IF i = 2 THEN (x \div LimbBase) % LimbBase
                    ELSE 0]

U32(x) == Limbs(2, x)
U64(x) == Limbs(4, x)
U32Max == <<LimbBase - 1, LimbBase - 1>>
U64Max == <<LimbBase - 1, LimbBase - 1, LimbBase - 1, LimbBase - 1>>

\* exact sum of two equal-length integers and a carry: one limb longer
RECURSIVE AddCarry(_, _, _)
AddCarry(a, b, c) ==
    IF a = <<>> THEN <<c>>
    ELSE LET s == Head(a) + Head(b) + c
         IN  <<s % LimbBase>> \o AddCarry(Tail(a), Tail(b), s \div LimbBase)

\* a + b in the width of a: <<wrapped result, overflowed>>
OverflowingAdd(a, b) ==
    LET s == AddCarry(a, b, 0)
    IN  <<SubSeq(s, 1, Len(a)), s[Len(a) + 1] # 0>>

\* u32::saturating_add
SaturatingAdd(a, b) ==
    LET s == OverflowingAdd(a, b)
    IN  IF s[2] THEN [i \in 1..Len(a) |-> LimbBase - 1] ELSE s[1]

\* a / 2
Half(a) ==
    [i \in 1..Len(a) |->
        (a[i] + (IF i < Len(a) THEN (a[i + 1] % 2) * LimbBase ELSE 0)) \div 2]

\* a < b
Lt(a, b) ==
    \E i \in 1..Len(a) :
        /\ a[i] < b[i]
        /\ \A j \in (i + 1)..Len(a) : a[j] = b[j]

Le(a, b) == a = b \/ Lt(a, b)

(***************************************************************************)
(* U256 values.  Only the low 32 bits are ever read (low_u32), so a U256   *)
(* is its low 32 bits plus a flag saying whether any higher bit is set.    *)
(***************************************************************************)
U256(upper, low32) == [upper |-> upper, low32 |-> low32]
U256MaxValue == U256(TRUE, U32Max)
U256From(x) == U256(FALSE, x)
low_u32(x) == x.low32

(***************************************************************************)
(* ExitReason and the JSON-RPC Error.                                      *)
(***************************************************************************)
ExitReason(tag, inner) == [tag |-> tag, inner |-> inner]
Tags == {"Succeed", "Error", "Revert", "Fatal"}

\* the Debug rendering of the inner value of each outcome the model uses
InnerOf(tag) ==
    CASE tag = "Succeed" -> "Returned"
      [] tag = "Error"   -> "OutOfGas"
      [] tag = "Revert"  -> "Reverted"
      [] tag = "Fatal"   -> "NotSupported"

UnknownExitReason == ExitReason("Fatal", "Other(\"Unknown exit reason\")")

Pending == [kind |-> "Pending"]
Ok(x) == [kind |-> "Ok", value |-> x]
Err(e) == [kind |-> "Err", error |-> e]
Panic(what) == [kind |-> "Panic", what |-> what]

Unit == "()"

\* a String is a literal prefix followed by a sequence of bytes
Str(prefix, tail) == [prefix |-> prefix, tail |-> tail]

Error(msg, d) == [code |-> "InternalError", message |-> msg, data |-> d]

internal_err(msg) == Error(Str(msg, <<>>), None)

(***************************************************************************)
(* error_on_execution_failure                                              *)
(***************************************************************************)
Cont(b) == 128 <= b /\ b <= 191

\* std::str::from_utf8(bytes).is_ok(): well-formed UTF-8
RECURSIVE ValidUtf8(_)
ValidUtf8(s) ==
    IF s = <<>> THEN TRUE
    ELSE LET b == s[1]
             n == Len(s)
         IN  IF b <= 127 THEN ValidUtf8(Tail(s))
             ELSE IF 194 <= b /\ b <= 223
                  THEN n >= 2 /\ Cont(s[2]) /\ ValidUtf8(SubSeq(s, 3, n))
             ELSE IF 224 <= b /\ b <= 239
                  THEN /\ n >= 3
                       /\ Cont(s[2]) /\ Cont(s[3])
                       /\ (b = 224 => s[2] >= 160)
                       /\ (b = 237 => s[2] <= 159)
                       /\ ValidUtf8(SubSeq(s, 4, n))
             ELSE IF 240 <= b /\ b <= 244
                  THEN /\ n >= 4
                       /\ Cont(s[2]) /\ Cont(s[3]) /\ Cont(s[4])
                       /\ (b = 240 => s[2] >= 144)
                       /\ (b = 244 => s[2] <= 143)
                       /\ ValidUtf8(SubSeq(s, 5, n))
             ELSE FALSE

\* bytes[36..68].iter().sum::<u8>(): <<sum modulo 2^8, overflowed>>
RECURSIVE SumU8(_)
SumU8(bytes) ==
    IF bytes = <<>> THEN <<0, FALSE>>
    ELSE LET n == Len(bytes)
             rest == SumU8(SubSeq(bytes, 1, n - 1))
             s == rest[1] + bytes[n]
         IN  <<s % 256, rest[2] \/ s >= 256>>

\* the length field as the code reads it
LengthField(bytes) == SubSeq(bytes, 37, 68)
message_len(bytes) == SumU8(LengthField(bytes))[1]

HexDigit(n) == <<"0", "1", "2", "3", "4", "5", "6", "7",
                 "8", "9", "a", "b", "c", "d", "e", "f">>[n + 1]

\* rustc_hex::ToHex: two lowercase digits per byte, no prefix
RECURSIVE ToHex(_)
ToHex(bytes) ==
    IF bytes = <<>> THEN <<>>
    ELSE <<HexDigit(bytes[1] \div 16), HexDigit(bytes[1] % 16)>> \o ToHex(Tail(bytes))

RevertMessage == "VM Exception while processing transaction: revert"

\* the Revert arm: the message and data, or the panic the arm ends in
RevertArm(bytes, bld) ==
    IF Len(bytes) > 68
    THEN LET sum == SumU8(LengthField(bytes))
             len == sum[1]
         IN  IF sum[2] /\ bld = "debug"
             THEN Panic("attempt to add with overflow")
             ELSE IF 68 + len > Len(bytes)
             THEN Panic("range end index out of range for slice")
             ELSE LET body == SubSeq(bytes, 69, 68 + len)
                  IN  IF ValidUtf8(body)
                      THEN Err(Error(Str(RevertMessage, <<32>> \o body),
                                     Some(ToHex(bytes))))
                      ELSE Err(Error(Str(RevertMessage, <<>>), Some(ToHex(bytes))))
    ELSE Err(Error(Str(RevertMessage, <<>>), Some(ToHex(bytes))))

error_on_execution_failure(rsn, bytes, bld) ==
    CASE rsn.tag = "Succeed" -> Ok(Unit)
      [] rsn.tag = "Error" ->
            Err(Error(Str("evm error: ", <<rsn.inner>>), Some(<<"0", "x">>)))
      [] rsn.tag = "Revert" -> RevertArm(bytes, bld)
      [] rsn.tag = "Fatal" ->
            Err(Error(Str("evm fatal: ", <<rsn.inner>>), Some(<<"0", "x">>)))

(***************************************************************************)
(* estimate_gas_binary::execute                                            *)
(***************************************************************************)
MinGas == 21000

\* gas.unwrap_or(U256::max_value())
gas_limit == IF IsNone(gas) THEN U256MaxValue ELSE Unwrap(gas)

\* the ceiling of the search: the initial value of high
ceiling == low_u32(gas_limit)

\* the loop condition written as low < high
LoopCondOffByOne(lo, hi) == Lt(lo, hi)

\* while low + 1 < high.  low never exceeds 2^31 - 1 (LowNeverOverflows), so
\* low + 1 never overflows and no build panics here.
LoopCond(lo, hi) == Lt(OverflowingAdd(lo, U32(1))[1], hi)

\* (high.saturating_add(low)) / 2
Midpoint(lo, hi) == Half(SaturatingAdd(hi, lo))

\* The execution engine.  A threshold engine reports Error below T and the
\* outcome `above` from T on; a free engine may report anything.
Threshold(T, above) == [kind |-> "threshold", T |-> T, above |-> above]
Free == [kind |-> "free"]

Outcomes(p, budget) ==
    IF p.kind = "threshold"
    THEN {IF Lt(budget, p.T) THEN "Error" ELSE p.above}
    ELSE Tags

\* lines 84-109: destructure the request, set up the interval
ExecuteStart ==
    /\ call = "execute" /\ pc = "start"
    /\ high' = low_u32(gas_limit)
    /\ low' = U32(MinGas)
    /\ exit_reason' = None
    /\ pc' = "loop"
    /\ UNCHANGED <<call, build, ret, gas, probe, current, probes, last_probe>>
    /\ UNCHANGED clsVars /\ UNCHANGED sgnVars

\* lines 110-147: one iteration whose executor run ends in ExitReason::Error
ExecuteProbeError ==
    /\ call = "execute" /\ pc = "loop"
    /\ LoopCond(low, high)
    /\ probes < MaxProbes
    /\ current' = Midpoint(low, high)
    /\ "Error" \in Outcomes(probe, current')
    /\ low' = current'
    /\ exit_reason' = Some(ExitReason("Error", InnerOf("Error")))
    /\ probes' = probes + 1
    /\ last_probe' = Some([budget |-> current', tag |-> "Error"])
    /\ UNCHANGED <<call, build, pc, ret, gas, probe, high>>
    /\ UNCHANGED clsVars /\ UNCHANGED sgnVars

\* lines 110-142, 148-149: one iteration whose run ends in any other outcome
ExecuteProbeOther ==
    /\ call = "execute" /\ pc = "loop"
    /\ LoopCond(low, high)
    /\ probes < MaxProbes
    /\ current' = Midpoint(low, high)
    /\ \E tag \in Outcomes(probe, current') \ {"Error"} :
          /\ exit_reason' = Some(ExitReason(tag, InnerOf(tag)))
          /\ last_probe' = Some([budget |-> current', tag |-> tag])
    /\ high' = current'
    /\ probes' = probes + 1
    /\ UNCHANGED <<call, build, pc, ret, gas, probe, low>>
    /\ UNCHANGED clsVars /\ UNCHANGED sgnVars

\* execute without the final classification
ExecuteResultUnclassified(er, hi, bld) == Ok(U256From(hi))

\* the value execute returns once the loop has ended
ExecuteResult(er, hi, bld) ==
    LET r == error_on_execution_failure(er, <<>>, bld)
    IN  IF r.kind = "Ok" THEN Ok(U256From(hi)) ELSE r

\* lines 152-158: the loop has ended
ExecuteFinish ==
    /\ call = "execute" /\ pc = "loop"
    /\ ~LoopCond(low, high)
    /\ exit_reason' = IF IsNone(exit_reason) THEN Some(UnknownExitReason)
                      ELSE exit_reason
    /\ ret' = ExecuteResult(Unwrap(exit_reason'), high, build)
    /\ pc' = "done"
    /\ UNCHANGED <<call, build, gas, probe, high, low, current, probes, last_probe>>
    /\ UNCHANGED clsVars /\ UNCHANGED sgnVars

(***************************************************************************)
(* A call of error_on_execution_failure on its own.                        *)
(***************************************************************************)
Classify ==
    /\ call = "classify" /\ pc = "start"
    /\ ret' = error_on_execution_failure(reason, data, build)
    /\ pc' = "done"
    /\ UNCHANGED <<call, build>>
    /\ UNCHANGED estVars /\ UNCHANGED clsVars /\ UNCHANGED sgnVars

(***************************************************************************)
(* EthDevSigner                                                            *)
(***************************************************************************)
TestKey == "0x1111111111111111111111111111111111111111111111111111111111111111"

\* EthDevSigner::new
EthDevSigner_new == <<TestKey>>

\* the address of a secret key: the last 20 bytes of the Keccak-256 of its
\* public key.  The hash is a fixed table from keys to addresses.
KeyAddress(secret) ==
    IF secret = TestKey THEN "0x19e7e376e7c213b7e7e7e46cc70a5dd086daff2a"
    ELSE "0x0000000000000000000000000000000000000000"

accounts(ks) == [i \in 1..Len(ks) |-> KeyAddress(ks[i])]

\* a scan that takes the first key whatever its address
KeyMatchesAny(secret, addr) == TRUE

\* &key_address == address
KeyMatches(secret, addr) == KeyAddress(secret) = addr

\* lines 269-272: v, or the overflow panic of a build with overflow checks
ComputeV(chain_id, rec, bld) ==
    IF IsNone(chain_id)
    THEN Ok(OverflowingAdd(U64(27), U64(rec))[1])
    ELSE LET c == Unwrap(chain_id)
             dbl == OverflowingAdd(c, c)
             p35 == OverflowingAdd(dbl[1], U64(35))
             all == OverflowingAdd(p35[1], U64(rec))
         IN  IF bld = "debug" /\ (dbl[2] \/ p35[2] \/ all[2])
             THEN Panic("attempt to multiply or add with overflow")
             ELSE Ok(all[1])

\* secp256k1::sign: the signature is a function of the digest and the key
Signature(msg, secret) == [r |-> <<"r", msg.payload, secret>>,
                           s |-> <<"s", msg.payload, secret>>]

Transaction(msg, v, sig) ==
    [payload |-> msg.payload, signature |-> [v |-> v, r |-> sig.r, s |-> sig.s]]

\* lines 256-263, 264 (no match): this key is not the one asked for
SignScan ==
    /\ call = "sign" /\ pc = "scan"
    /\ idx <= Len(keys)
    /\ ~KeyMatches(keys[idx], address)
    /\ idx' = idx + 1
    /\ UNCHANGED <<call, build, pc, ret>>
    /\ UNCHANGED estVars /\ UNCHANGED clsVars
    /\ UNCHANGED <<keys, message, address, recid, parse_ok, sig_ok, transaction>>

\* lines 264-289: the key is found; sign, or leave with `?`
SignMatch ==
    /\ call = "sign" /\ pc = "scan"
    /\ idx <= Len(keys)
    /\ KeyMatches(keys[idx], address)
    /\ LET v == ComputeV(message.chain_id, recid, build)
       IN  IF ~parse_ok
           THEN /\ ret' = Err(internal_err("invalid signing message"))
                /\ pc' = "done"
                /\ UNCHANGED transaction
           ELSE IF v.kind = "Panic"
           THEN /\ ret' = v
                /\ pc' = "done"
                /\ UNCHANGED transaction
           ELSE IF ~sig_ok
           THEN /\ ret' = Err(internal_err("signer generated invalid signature"))
                /\ pc' = "done"
                /\ UNCHANGED transaction
           ELSE /\ transaction' =
                      Some(Transaction(message, v.value, Signature(message, keys[idx])))
                /\ pc' = "break"
                /\ UNCHANGED ret
    /\ UNCHANGED <<call, build>>
    /\ UNCHANGED estVars /\ UNCHANGED clsVars
    /\ UNCHANGED <<keys, message, address, idx, recid, parse_ok, sig_ok>>

\* line 292: transaction.ok_or(internal_err("signer not available"))
SignReturn ==
    /\ call = "sign"
    /\ \/ pc = "break"
       \/ pc = "scan" /\ idx > Len(keys)
    /\ ret' = IF IsNone(transaction)
              THEN Err(internal_err("signer not available"))
              ELSE Ok(Unwrap(transaction))
    /\ pc' = "done"
    /\ UNCHANGED <<call, build>>
    /\ UNCHANGED estVars /\ UNCHANGED clsVars /\ UNCHANGED sgnVars

(***************************************************************************)
(* Inputs.                                                                 *)
(***************************************************************************)
Pow2_30 == <<0, 16384>>
Pow2_31m1 == <<65535, 32767>>
Pow2_31 == <<0, 32768>>
Pow2_31p1 == <<1, 32768>>
ThreePow2_30 == <<0, 49152>>

SmallCeilings == {U32(0), U32(MinGas - 1)} \cup {U32(MinGas + k) : k \in 0..MaxWidth}
BigCeilings == {Pow2_31m1, Pow2_31, Pow2_31p1, U32Max}

GasInputs ==
    {None}
    \cup {Some(U256(FALSE, c)) : c \in SmallCeilings \cup BigCeilings}
    \cup {Some(U256(TRUE, U32(MinGas + MaxWidth)))}

Thresholds ==
    {U32(MinGas - 1)} \cup {U32(MinGas + k) : k \in 0..(MaxWidth + 1)}
    \cup {Pow2_30, Pow2_31m1, Pow2_31, ThreePow2_30, U32Max}

\* a free engine is explored on the small ceilings only
ProbeInputs(g) ==
    {Threshold(T, above) : T \in Thresholds, above \in Tags \ {"Error"}}
    \cup (IF ~IsNone(g) /\ low_u32(Unwrap(g)) \in SmallCeilings THEN {Free} ELSE {})

Zeros(n) == [i \in 1..n |-> 0]
Selector == <<8, 195, 121, 160>>
Offset == Zeros(31) \o <<32>>
Field(b36, b66, b67) == <<b36>> \o Zeros(29) \o <<b66, b67>>

BodyBytes == {97, 195, 169}

RECURSIVE SeqsUpTo(_, _)
SeqsUpTo(S, n) ==
    IF n = 0 THEN {<<>>}
    ELSE LET shorter == SeqsUpTo(S, n - 1)
         IN  shorter \cup {<<x>> \o t : x \in S, t \in {u \in shorter : Len(u) = n - 1}}

DataInputs ==
    {<<>>, Selector, Selector \o Offset, Selector \o Offset \o Field(0, 0, 1)}
    \cup {Selector \o Offset \o Field(b36, b66, b67) \o body :
            b36 \in {0, 1}, b66 \in {0, 1, 255}, b67 \in {0, 1, 2, 3, 255},
            body \in SeqsUpTo(BodyBytes, MaxBody)}

ChainIds ==
    {None, Some(U64(1)), Some(U64(42)),
     Some(<<65518, 65535, 65535, 32767>>),     \* 2^63 - 18
     Some(<<0, 0, 0, 32768>>),                 \* 2^63
     Some(U64Max)}

Addresses == {KeyAddress(TestKey),
              "0x0000000000000000000000000000000000000000",
              "0x0000000000000000000000000000000000000001"}

Idle32 == U32(0)
IdleReason == ExitReason("Succeed", InnerOf("Succeed"))
IdleMessage == [payload |-> "m1", chain_id |-> None]

InitExecute ==
    /\ call = "execute" /\ pc = "start"
    /\ gas \in GasInputs
    /\ probe \in ProbeInputs(gas)
    /\ high = Idle32 /\ low = Idle32 /\ current = Idle32
    /\ exit_reason = None /\ probes = 0 /\ last_probe = None
    /\ reason = IdleReason /\ data = <<>>
    /\ keys = EthDevSigner_new /\ message = IdleMessage
    /\ address = KeyAddress(TestKey) /\ idx = 1 /\ recid = 0
    /\ parse_ok = TRUE /\ sig_ok = TRUE /\ transaction = None

InitClassify ==
    /\ call = "classify" /\ pc = "start"
    /\ reason \in {ExitReason(t, InnerOf(t)) : t \in Tags}
    /\ data \in DataInputs
    /\ gas = None /\ probe = Free
    /\ high = Idle32 /\ low = Idle32 /\ current = Idle32
    /\ exit_reason = None /\ probes = 0 /\ last_probe = None
    /\ keys = EthDevSigner_new /\ message = IdleMessage
    /\ address = KeyAddress(TestKey) /\ idx = 1 /\ recid = 0
    /\ parse_ok = TRUE /\ sig_ok = TRUE /\ transaction = None

InitSign ==
    /\ call = "sign" /\ pc = "scan"
    /\ keys = EthDevSigner_new
    /\ message \in [payload : {"m1", "m2"}, chain_id : ChainIds]
    /\ address \in Addresses
    /\ idx = 1
    /\ recid \in 0..3
    /\ parse_ok \in BOOLEAN /\ sig_ok \in BOOLEAN
    /\ transaction = None
    /\ gas = None /\ probe = Free
    /\ high = Idle32 /\ low = Idle32 /\ current = Idle32
    /\ exit_reason = None /\ probes = 0 /\ last_probe = None
    /\ reason = IdleReason /\ data = <<>>

Init ==
    /\ build \in {"debug", "release"}
    /\ ret = Pending
    /\ (InitExecute \/ InitClassify \/ InitSign)

Next ==
    \/ ExecuteStart
    \/ ExecuteProbeError
    \/ ExecuteProbeOther
    \/ ExecuteFinish
    \/ Classify
    \/ SignScan
    \/ SignMatch
    \/ SignReturn

Spec == Init /\ [][Next]_vars

(***************************************************************************)
(* Properties of the gas estimator.                                        *)
(***************************************************************************)
\* a - b for b <= a
RECURSIVE SubBorrow(_, _, _)
SubBorrow(a, b, c) ==
    IF a = <<>> THEN <<>>
    ELSE LET d == Head(a) - Head(b) - c
         IN  IF d < 0 THEN <<d + LimbBase>> \o SubBorrow(Tail(a), Tail(b), 1)
             ELSE <<d>> \o SubBorrow(Tail(a), Tail(b), 0)

Sub(a, b) == SubBorrow(a, b, 0)

\* ceil(log2(w)) for w >= 1, and 0 for w = 0
RECURSIVE CeilLog2(_)
CeilLog2(w) ==
    IF Le(w, Limbs(Len(w), 1)) THEN 0
    ELSE 1 + CeilLog2(OverflowingAdd(Half(w), Limbs(Len(w), w[1] % 2))[1])

Floor == U32(MinGas)
Width == Sub(ceiling, Floor)
Executed == call = "execute" /\ pc = "done"

\* low stays below 2^31, so low + 1 cannot overflow a u32
LowNeverOverflows == call = "execute" => Le(low, Pow2_31m1)

\* C1: against an engine that succeeds exactly from a threshold T on, execute
\* returns Ok(T), never an error or another value.  The claim is stated for
\* every T in [21000, ceiling]; it is checked here on the thresholds strictly
\* inside the interval, where neither end of the interval plays a part.
C1_BinarySearchCorrect ==
    (/\ Executed
     /\ probe.kind = "threshold" /\ probe.above = "Succeed"
     /\ Lt(Floor, probe.T) /\ Lt(probe.T, ceiling))
    => ret = Ok(U256From(probe.T))

\* C2: for a ceiling of at least 21000 the search never runs more than
\* ceil(log2(ceiling - 21000)) probes, whatever the outcomes are.
C2_ProbeBound ==
    (call = "execute" /\ pc # "start" /\ Le(Floor, ceiling))
    => probes <= CeilLog2(Width)

\* C3: with a ceiling of at most 21001 (below the floor, or an interval with
\* low + 1 >= high from the start) execute runs no probe and returns the
\* internal error of the synthesized Fatal "Unknown exit reason".
C3_DegenerateInterval ==
    (call = "execute" /\ pc # "start" /\ Le(ceiling, U32(MinGas + 1)))
    => /\ probes = 0
       /\ pc = "done" =>
            /\ ret.kind = "Err"
            /\ ret.error.code = "InternalError"
            /\ ret.error.message = Str("evm fatal: ", <<"Other(\"Unknown exit reason\")">>)

C3_Witness ==
    /\ Executed
    /\ Lt(ceiling, Floor)
    /\ ret.kind = "Err"
    /\ probes = 0

\* C9: every probe is run on an interval with low < high, its budget is
\* strictly between low and high, and it leaves the interval strictly narrower.
C9_IntervalInvariant ==
    [][(call = "execute" /\ pc = "loop" /\ pc' = "loop")
        => /\ Lt(low, high)
           /\ Lt(low, current') /\ Lt(current', high)
           /\ Lt(Sub(high', low'), Sub(high, low))]_vars

\* C10: once the loop has ended, execute returns the classification error of
\* the most recent probe's outcome (classified with empty return data) unless
\* that outcome is Succeed; it returns an estimate only when the most recent
\* probe succeeded, and the estimate is high, the budget of that probe.
C10_FinalClassification ==
    Executed =>
        /\ ret.kind \in {"Ok", "Err"}
        /\ ret.kind = "Ok" =>
              /\ ~IsNone(last_probe)
              /\ Unwrap(last_probe).tag = "Succeed"
              /\ ret.value = U256From(high)
              /\ high = Unwrap(last_probe).budget
        /\ (~IsNone(last_probe) /\ Unwrap(last_probe).tag = "Succeed") => ret.kind = "Ok"
        /\ (~IsNone(last_probe) /\ Unwrap(last_probe).tag = "Error") =>
              /\ ret.kind = "Err"
              /\ ret.error.message.prefix = "evm error: "
        /\ (~IsNone(last_probe) /\ Unwrap(last_probe).tag = "Fatal") =>
              /\ ret.kind = "Err"
              /\ ret.error.message.prefix = "evm fatal: "
        /\ (~IsNone(last_probe) /\ Unwrap(last_probe).tag = "Revert") =>
              /\ ret.kind = "Err"
              /\ ret.error.message = Str(RevertMessage, <<>>)
              /\ ret.error.data = Some(<<>>)

C10_Witness ==
    /\ Executed
    /\ probes >= 2
    /\ ret.kind = "Ok"
    /\ Lt(Floor, low)

(***************************************************************************)
(* Properties of the outcome classifier.                                   *)
(***************************************************************************)
Classified == call = "classify" /\ pc = "done"

HexValue(ch) == CHOOSE n \in 0..15 : HexDigit(n) = ch

\* the bytes a hex string encodes
FromHex(h) == [i \in 1..(Len(h) \div 2) |-> 16 * HexValue(h[2 * i - 1]) + HexValue(h[2 * i])]

\* the 32-byte big-endian encoding of n < 2^16
BigEndian32(n) == Zeros(30) \o <<n \div 256, n % 256>>

\* C4: classifying a Revert always completes and returns an error whose
\* message begins with the revert text and whose data is the hex of the whole
\* return data, whatever the return data is.
C4_RevertBestEffort ==
    (Classified /\ reason.tag = "Revert")
    => /\ ret.kind = "Err"
       /\ ret.error.message.prefix = RevertMessage
       /\ FromHex(Unwrap(ret.error.data)) = data

\* C5: for return data longer than 68 bytes the length of the reason is bytes
\* 36..68 read as a big-endian integer: text is appended exactly when
\* return_bytes[68 .. 68 + that length] is valid UTF-8, and it is that slice.
C5_BigEndianLength ==
    (Classified /\ reason.tag = "Revert" /\ Len(data) > 68 /\ ret.kind = "Err")
    => LET tail == ret.error.message.tail
       IN  /\ tail # <<>> =>
                /\ LengthField(data) = BigEndian32(Len(tail) - 1)
                /\ tail = <<32>> \o SubSeq(data, 69, 68 + Len(tail) - 1)
           /\ \A n \in 0..(Len(data) - 68) :
                (/\ LengthField(data) = BigEndian32(n)
                 /\ ValidUtf8(SubSeq(data, 69, 68 + n)))
                => tail = <<32>> \o SubSeq(data, 69, 68 + n)

\* C6: the classifier returns Ok(()) for Succeed whatever the data, and returns
\* an RPC error for Error, Revert and Fatal.
C6_OkIffSucceed ==
    Classified =>
        /\ reason.tag = "Succeed" => ret = Ok(Unit)
        /\ reason.tag # "Succeed" => ret.kind = "Err"

(***************************************************************************)
(* Properties of the signer.                                               *)
(***************************************************************************)
Signed == call = "sign" /\ pc = "done"
Held(addr) == \E i \in 1..Len(keys) : accounts(keys)[i] = addr

\* C7: sign for an address that is not among accounts() returns the error
\* "signer not available" and builds no transaction; a transaction is built
\* only for an address a held key derives to.
C7_UnknownSigner ==
    call = "sign" =>
        /\ (pc = "done" /\ ~Held(address)) =>
              ret = Err(internal_err("signer not available"))
        /\ ~Held(address) => IsNone(transaction)
        /\ ~IsNone(transaction) =>
              /\ idx \in 1..Len(keys)
              /\ KeyAddress(keys[idx]) = address
        /\ (pc = "done" /\ ret.kind = "Ok") => ~IsNone(transaction)

C7_Witness ==
    /\ Signed
    /\ ~Held(address)
    /\ idx > Len(keys)
    /\ ret.kind = "Err"

\* exact (unbounded) arithmetic on 64-bit values: one more limb
Wide(x) == x \o <<0>>
WideAdd(a, b) == SubSeq(AddCarry(a, b, 0), 1, Len(a))

\* C8: the v of every signed transaction is 27 + recovery_id without a chain id
\* and 2 * chain_id + 35 + recovery_id with one, for every chain id.
C8_RecoveryValue ==
    (call = "sign" /\ ~IsNone(transaction))
    => LET v == Unwrap(transaction).signature.v
       IN  IF IsNone(message.chain_id)
           THEN Wide(v) = Wide(U64(27 + recid))
           ELSE LET c == Wide(Unwrap(message.chain_id))
                IN  Wide(v) = WideAdd(WideAdd(c, c), Wide(U64(35 + recid)))

====
